---- MODULE Spec2Model ----
(***************************************************************************)
(* Dice formula lexer, parser and evaluator of dice.py.                    *)
(*                                                                         *)
(* A text is a sequence of one-character strings.  Lexer positions are     *)
(* 0-based as in the source, so the character at position p is text[p+1].  *)
(***************************************************************************)
EXTENDS Integers, Sequences, FiniteSets

\* ------------------------------------------------------------------------
\* Bounds of the model
\* ------------------------------------------------------------------------
MaxLen == 5
MaxOpLen == 7
MaxMods == 3
MaxRollDice == 2
MaxRollSides == 3
MaxBagLen == 2
MaxFairLen == 3
MaxLexLen == 4
MaxAhead == 3

\* ------------------------------------------------------------------------
\* Characters and tokens
\* ------------------------------------------------------------------------
None == "None"

Digits == {"0", "1", "2", "3", "4", "5", "6", "7", "8", "9"}

Whitespace == {" ", "\t"}

IsDecimal(c) == c \in Digits

IsSpace(c) == c \in Whitespace

DigitVal(c) ==
    CASE c = "0" -> 0 [] c = "1" -> 1 [] c = "2" -> 2 [] c = "3" -> 3
      [] c = "4" -> 4 [] c = "5" -> 5 [] c = "6" -> 6 [] c = "7" -> 7
      [] c = "8" -> 8 [] c = "9" -> 9

DigitChar(n) ==
    CASE n = 0 -> "0" [] n = 1 -> "1" [] n = 2 -> "2" [] n = 3 -> "3"
      [] n = 4 -> "4" [] n = 5 -> "5" [] n = 6 -> "6" [] n = 7 -> "7"
      [] n = 8 -> "8" [] n = 9 -> "9"

INTEGER == "integer"
DELIM == "delim"
PLUS == "plus"
MINUS == "minus"
EOF == "eof"

TokenType == {INTEGER, DELIM, PLUS, MINUS, EOF}

\* A token carries an integer only when it is an INTEGER; the literal of the
\* other kinds is determined by the kind and is kept in lit.
Token(type, value, lit) == [type |-> type, value |-> value, lit |-> lit]

NoToken == Token("none", 0, None)

\* ------------------------------------------------------------------------
\* Errors
\* ------------------------------------------------------------------------
NoError ==
    [kind |-> "none", char |-> None, index |-> 0, expected |-> "none", got |-> "none"]

InvalidInput ==
    [kind |-> "InvalidInput", char |-> None, index |-> 0,
     expected |-> "none", got |-> "none"]

InvalidCharacter(c, i) ==
    [kind |-> "InvalidCharacter", char |-> c, index |-> i,
     expected |-> "none", got |-> "none"]

UnexpectedToken(e, g) ==
    [kind |-> "UnexpectedToken", char |-> None, index |-> 0,
     expected |-> e, got |-> g]

AttributeError ==
    [kind |-> "AttributeError", char |-> None, index |-> 0,
     expected |-> "none", got |-> "none"]

AssertionError ==
    [kind |-> "AssertionError", char |-> None, index |-> 0,
     expected |-> "none", got |-> "none"]

\* ------------------------------------------------------------------------
\* Lexer: a lexer state is [pos, current_char] over a text t
\* ------------------------------------------------------------------------
CharAt(t, value) == IF value >= Len(t) THEN None ELSE t[value + 1]

SetPos(t, value) == [pos |-> value, current_char |-> CharAt(t, value)]

Advance(t, L) == SetPos(t, L.pos + 1)

RECURSIVE SkipWhitespace(_, _)
SkipWhitespace(t, L) ==
    IF L.current_char # None /\ IsSpace(L.current_char)
    THEN SkipWhitespace(t, Advance(t, L))
    ELSE L

\* IntOf with each digit valued from "1", as ord(c) - ord("1") would
RECURSIVE IntOfFromOne(_)
IntOfFromOne(result) ==
    IF result = <<>> THEN 0
    ELSE 10 * IntOfFromOne(SubSeq(result, 1, Len(result) - 1))
         + (DigitVal(result[Len(result)]) - 1)

\* int(result) of a string of decimal digits
RECURSIVE IntOf(_)
IntOf(result) ==
    IF result = <<>> THEN 0
    ELSE 10 * IntOf(SubSeq(result, 1, Len(result) - 1)) + DigitVal(result[Len(result)])

RECURSIVE IntegerLoop(_, _, _)
IntegerLoop(t, L, result) ==
    IF L.current_char # None /\ IsDecimal(L.current_char)
    THEN IntegerLoop(t, Advance(t, L), Append(result, L.current_char))
    ELSE [lex |-> L, value |-> IntOf(result)]

LexInteger(t, L) == IntegerLoop(t, L, <<>>)

\* The result of a lexer call: the lexer state it leaves, the token it returns
\* and the error it raises (NoError when it returns).
LexResult(L, token, error) == [lex |-> L, token |-> token, error |-> error]

\* GetNextToken that reports an unrecognised character at the index the call
\* started from, before the whitespace it skipped
GetNextTokenIndexAtCall(t, L) ==
    IF L.current_char = None
    THEN LexResult(L, Token(EOF, 0, None), NoError)
    ELSE LET S == SkipWhitespace(t, L) IN
         IF S.current_char = None
         THEN LexResult(S, NoToken, AttributeError)
         ELSE IF IsDecimal(S.current_char)
         THEN LET I == LexInteger(t, S) IN
              LexResult(I.lex, Token(INTEGER, I.value, None), NoError)
         ELSE IF S.current_char = "d"
         THEN LexResult(Advance(t, S), Token(DELIM, 0, "d"), NoError)
         ELSE IF S.current_char = "+"
         THEN LexResult(Advance(t, S), Token(PLUS, 0, "+"), NoError)
         ELSE IF S.current_char = "-"
         THEN LexResult(Advance(t, S), Token(MINUS, 0, "-"), NoError)
         ELSE LexResult(S, NoToken, InvalidCharacter(S.current_char, L.pos))

\* GetNextToken that steps over the end of the text when it returns EOF
GetNextTokenPastEnd(t, L) ==
    IF L.current_char = None
    THEN LexResult(Advance(t, L), Token(EOF, 0, None), NoError)
    ELSE LET S == SkipWhitespace(t, L) IN
         IF S.current_char = None
         THEN LexResult(S, NoToken, AttributeError)
         ELSE IF IsDecimal(S.current_char)
         THEN LET I == LexInteger(t, S) IN
              LexResult(I.lex, Token(INTEGER, I.value, None), NoError)
         ELSE IF S.current_char = "d"
         THEN LexResult(Advance(t, S), Token(DELIM, 0, "d"), NoError)
         ELSE IF S.current_char = "+"
         THEN LexResult(Advance(t, S), Token(PLUS, 0, "+"), NoError)
         ELSE IF S.current_char = "-"
         THEN LexResult(Advance(t, S), Token(MINUS, 0, "-"), NoError)
         ELSE LexResult(S, NoToken, InvalidCharacter(S.current_char, S.pos))

GetNextToken(t, L) ==
    IF L.current_char = None
    THEN LexResult(L, Token(EOF, 0, None), NoError)
    ELSE LET S == SkipWhitespace(t, L) IN
         IF S.current_char = None
         THEN LexResult(S, NoToken, AttributeError)
         ELSE IF IsDecimal(S.current_char)
         THEN LET I == LexInteger(t, S) IN
              LexResult(I.lex, Token(INTEGER, I.value, None), NoError)
         ELSE IF S.current_char = "d"
         THEN LexResult(Advance(t, S), Token(DELIM, 0, "d"), NoError)
         ELSE IF S.current_char = "+"
         THEN LexResult(Advance(t, S), Token(PLUS, 0, "+"), NoError)
         ELSE IF S.current_char = "-"
         THEN LexResult(Advance(t, S), Token(MINUS, 0, "-"), NoError)
         ELSE LexResult(S, NoToken, InvalidCharacter(S.current_char, S.pos))

\* The for loop of peek_next_token: the remaining calls of get_next_token,
\* the first failing one ending the loop with the lexer where it stopped.
RECURSIVE PeekLoop(_, _, _, _)
PeekLoop(t, L, n, token) ==
    IF n = 0 THEN LexResult(L, token, NoError)
    ELSE LET R == GetNextToken(t, L) IN
         IF R.error.kind # "none" THEN R
         ELSE PeekLoop(t, R.lex, n - 1, R.token)

\* PeekNextToken that does not put the cursor back
PeekNextTokenNoRestore(t, L, ahead) ==
    IF ~(ahead > 0) THEN LexResult(L, NoToken, AssertionError)
    ELSE PeekLoop(t, L, ahead, NoToken)

\* PeekLoop that accepts a count of 0, as a test ahead >= 0 would allow
RECURSIVE PeekLoopFromZero(_, _, _, _)
PeekLoopFromZero(t, L, n, token) ==
    IF n <= 0 THEN LexResult(L, token, NoError)
    ELSE LET R == GetNextToken(t, L) IN
         IF R.error.kind # "none" THEN R
         ELSE PeekLoopFromZero(t, R.lex, n - 1, R.token)

\* PeekNextToken asserting ahead >= 0
PeekNextTokenFromZero(t, L, ahead) ==
    IF ~(ahead >= 0) THEN LexResult(L, NoToken, AssertionError)
    ELSE LET R == PeekLoopFromZero(t, L, ahead, NoToken) IN
         IF R.error.kind # "none" THEN R
         ELSE LexResult(SetPos(t, L.pos), R.token, NoError)

PeekNextToken(t, L, ahead) ==
    IF ~(ahead > 0) THEN LexResult(L, NoToken, AssertionError)
    ELSE LET R == PeekLoop(t, L, ahead, NoToken) IN
         IF R.error.kind # "none" THEN R
         ELSE LexResult(SetPos(t, L.pos), R.token, NoError)

\* ------------------------------------------------------------------------
\* Dice
\* ------------------------------------------------------------------------
Die(s, n, m) == [sides |-> s, num_dice |-> n, modifier |-> m]

DiceBagItem(die, subtracted) == [die |-> die, subtracted |-> subtracted]

add_die(bag, die, subtracted) == Append(bag, DiceBagItem(die, subtracted))

\* ------------------------------------------------------------------------
\* State
\* ------------------------------------------------------------------------
VARIABLES
    text,           \* Lexer.text
    pos,            \* Lexer._pos
    current_char,   \* Lexer.current_char
    current_token,  \* Parser.current_token
    pc,             \* position of the parser in Parser.__init__/dice/die,
                    \* "built" when no parser ran and B was built with add_die
    ret,            \* call site of die() inside dice(): "first", PLUS or MINUS
    num_dice,       \* local of die()
    sides,          \* local of die()
    modifier,       \* local of die()
    to_return,      \* local of dice(): the DiceBag under construction
    err,            \* the exception raised, NoError while none was raised
    diceOps,        \* the operators consumed by dice() in this parse, in order
    phase,          \* what is parsed: a "formula"; "render", str(B) of the bag
                    \* it gave; "render_built", str(B) of a bag built with
                    \* add_die; "pad", the formula with whitespace put in;
                    \* "built" while a built bag was not rendered yet
    B,              \* the DiceBag in hand: returned by from_str or built
    rollpc,         \* position of B.roll(): "idle", "rolling", "done", "failed"
    item,           \* DiceBag.roll: index of the item being rolled (from 1)
    drawn,          \* Die.roll: the draws made so far for each item rolled
    total,          \* DiceBag.roll: the running sum, its result when done
    first,          \* how from_str(text) ended the first time, when a caller
                    \* parses the same text again
    call            \* the call a caller made last on a Lexer of its own

vars == <<text, pos, current_char, current_token, pc, ret, num_dice, sides,
          modifier, to_return, err, diceOps, phase, B, rollpc, item, drawn, total,
          first, call>>

parserVars == <<text, pos, current_char, current_token, pc, ret, num_dice, sides,
                modifier, to_return, err, diceOps, phase>>

rollVars == <<rollpc, item, drawn, total>>

harnessVars == <<first, call>>

\* no text was parsed before
NoOutcome == [pc |-> "none", err |-> NoError]

\* no call was made
NoCall == [op |-> "none", ahead |-> 0, token |-> NoToken]

Lex == [pos |-> pos, current_char |-> current_char]

\* Eat that asks the lexer for the next token before it compares the kinds
EatLexesFirst(L, expected_token_type) ==
    LET R == GetNextToken(text, L) IN
    IF expected_token_type = current_token.type
    THEN R
    ELSE LexResult(R.lex, current_token,
                   UnexpectedToken(expected_token_type, current_token.type))

\* Parser.eat with the lexer in state L: the lexer call it makes, or the
\* UnexpectedToken it raises without touching the lexer.
Eat(L, expected_token_type) ==
    IF expected_token_type = current_token.type
    THEN GetNextToken(text, L)
    ELSE LexResult(L, current_token,
                   UnexpectedToken(expected_token_type, current_token.type))

Ok(R) == R.error.kind = "none"

\* The effect of the lexer call R made by eat (or by Parser.__init__): the token
\* becomes the current token when R returned, and the parser goes to `next`;
\* it goes to "failed" with the current token as it was when R raised.
Took(R, next) ==
    /\ pos' = R.lex.pos
    /\ current_char' = R.lex.current_char
    /\ current_token' = IF Ok(R) THEN R.token ELSE current_token
    /\ err' = R.error
    /\ pc' = IF Ok(R) THEN next ELSE "failed"

\* The effect of a peek R: the lexer is left as the peek left it and the
\* current token is not replaced.
Peeked(R, next) ==
    /\ pos' = R.lex.pos
    /\ current_char' = R.lex.current_char
    /\ current_token' = current_token
    /\ err' = R.error
    /\ pc' = IF Ok(R) THEN next ELSE "failed"

IsOperator(token) == token.type \in {PLUS, MINUS}

\* ------------------------------------------------------------------------
\* Parser
\* ------------------------------------------------------------------------
\* ParserInit without the test for an empty text: the lexer starts at the
\* end of the text and the first token is EOF
ParserInitUnchecked ==
    /\ pc = "new"
    /\ Took(GetNextToken(text, SetPos(text, 0)), "dice")
    /\ UNCHANGED <<text, ret, num_dice, sides, modifier, to_return, diceOps, phase,
                   B, rollVars, harnessVars>>

\* Parser(text): Lexer(text), then the first token
ParserInit ==
    /\ pc = "new"
    /\ IF text = <<>>
       THEN /\ err' = InvalidInput
            /\ pc' = "failed"
            /\ UNCHANGED <<pos, current_char, current_token>>
       ELSE Took(GetNextToken(text, SetPos(text, 0)), "dice")
    /\ UNCHANGED <<text, ret, num_dice, sides, modifier, to_return, diceOps, phase,
                   B, rollVars, harnessVars>>

\* dice(): the empty bag and the call of die() for the first term
DiceEnter ==
    /\ pc = "dice"
    /\ to_return' = <<>>
    /\ ret' = "first"
    /\ pc' = "die"
    /\ UNCHANGED <<text, pos, current_char, current_token, num_dice, sides,
                   modifier, err, diceOps, phase, B, rollVars, harnessVars>>

\* die(): the defaults and the optional count
DieEnter ==
    /\ pc = "die"
    /\ modifier' = 0
    /\ sides' = 0
    /\ IF current_token.type = INTEGER
       THEN LET R == Eat(Lex, INTEGER) IN
            /\ Took(R, "die_delim")
            /\ num_dice' = IF Ok(R) THEN current_token.value ELSE 1
       ELSE /\ num_dice' = 1
            /\ pc' = "die_delim"
            /\ UNCHANGED <<pos, current_char, current_token, err>>
    /\ UNCHANGED <<text, ret, to_return, diceOps, phase, B, rollVars, harnessVars>>

\* die(): the mandatory delimiter
DieDelim ==
    /\ pc = "die_delim"
    /\ Took(Eat(Lex, DELIM), "die_sides")
    /\ UNCHANGED <<text, ret, num_dice, sides, modifier, to_return, diceOps, phase,
                   B, rollVars, harnessVars>>

\* DieSides with the sides offset by the result of the last roll, as a parser
\* sharing state with the rolls would give
DieSidesAfterRoll ==
    /\ pc = "die_sides"
    /\ LET R == Eat(Lex, INTEGER) IN
       /\ Took(R, "die_loop")
       /\ sides' = IF Ok(R) THEN current_token.value + total ELSE sides
    /\ UNCHANGED <<text, ret, num_dice, modifier, to_return, diceOps, phase,
                   B, rollVars, harnessVars>>

\* die(): the mandatory sides
DieSides ==
    /\ pc = "die_sides"
    /\ LET R == Eat(Lex, INTEGER) IN
       /\ Took(R, "die_loop")
       /\ sides' = IF Ok(R) THEN current_token.value ELSE sides
    /\ UNCHANGED <<text, ret, num_dice, modifier, to_return, diceOps, phase,
                   B, rollVars, harnessVars>>

\* IsModifier without the second lookahead: any integer after the operator
\* is taken as a modifier
IsModifierOneAhead(type1, type2) == type1 = INTEGER

\* The test of the modifier loop, given the two peeks: "the thing after this
\* PLUS/MINUS is a modifier"
IsModifier(type1, type2) == type1 = INTEGER /\ type2 # DELIM

\* DieLoop that never looks ahead: every operator ends the modifier loop
DieLoopNoModifier ==
    /\ pc = "die_loop"
    /\ pc' = "die_return"
    /\ UNCHANGED <<pos, current_char, current_token, err>>
    /\ UNCHANGED <<text, ret, num_dice, sides, modifier, to_return, diceOps, phase,
                   B, rollVars, harnessVars>>

\* DieLoop that takes the modifier from the lookahead and eats nothing: the
\* operator stays the current token and the loop goes round again
DieLoopPeeksOnly ==
    /\ pc = "die_loop"
    /\ IF ~IsOperator(current_token)
       THEN /\ pc' = "die_return"
            /\ UNCHANGED <<pos, current_char, current_token, err, modifier>>
       ELSE LET P1 == PeekNextToken(text, Lex, 1) IN
            IF ~Ok(P1) THEN Peeked(P1, "failed") /\ UNCHANGED modifier
            ELSE IF P1.token.type # INTEGER
            THEN Peeked(P1, "die_return") /\ UNCHANGED modifier
            ELSE /\ Peeked(P1, "die_loop")
                 /\ modifier' = modifier + P1.token.value
    /\ UNCHANGED <<text, ret, num_dice, sides, to_return, diceOps, phase,
                   B, rollVars, harnessVars>>

\* die(): one test of the modifier loop; the operator is eaten when it
\* introduces a modifier
DieLoop ==
    /\ pc = "die_loop"
    /\ IF ~IsOperator(current_token)
       THEN /\ pc' = "die_return"
            /\ UNCHANGED <<pos, current_char, current_token, err>>
       ELSE LET P1 == PeekNextToken(text, Lex, 1) IN
            IF ~Ok(P1) THEN Peeked(P1, "failed")
            ELSE IF P1.token.type # INTEGER THEN Peeked(P1, "die_return")
            ELSE LET P2 == PeekNextToken(text, P1.lex, 2) IN
                 IF ~Ok(P2) THEN Peeked(P2, "failed")
                 ELSE IF ~IsModifier(P1.token.type, P2.token.type)
                 THEN Peeked(P2, "die_return")
                 ELSE Took(Eat(P2.lex, current_token.type),
                           IF current_token.type = PLUS THEN "die_plus"
                                                        ELSE "die_minus")
    /\ UNCHANGED <<text, ret, num_dice, sides, modifier, to_return, diceOps, phase,
                   B, rollVars, harnessVars>>

\* DieModifier with the MINUS branch adding as the PLUS branch does
DieModifierAddsOnly ==
    /\ pc \in {"die_plus", "die_minus"}
    /\ LET R == Eat(Lex, INTEGER) IN
       /\ Took(R, "die_loop")
       /\ modifier' = IF ~Ok(R) THEN modifier ELSE modifier + current_token.value
    /\ UNCHANGED <<text, ret, num_dice, sides, to_return, diceOps, phase, B, rollVars, harnessVars>>

\* die(): the integer of a modifier clause, added or subtracted
DieModifier ==
    /\ pc \in {"die_plus", "die_minus"}
    /\ LET R == Eat(Lex, INTEGER) IN
       /\ Took(R, "die_loop")
       /\ modifier' = IF ~Ok(R) THEN modifier
                      ELSE IF pc = "die_plus" THEN modifier + current_token.value
                      ELSE modifier - current_token.value
    /\ UNCHANGED <<text, ret, num_dice, sides, to_return, diceOps, phase, B, rollVars, harnessVars>>

\* DieReturn with every term added, whatever the call site
DieReturnAlwaysAdded ==
    /\ pc = "die_return"
    /\ to_return' = add_die(to_return, Die(sides, num_dice, modifier), FALSE)
    /\ pc' = "dice_loop"
    /\ UNCHANGED <<text, pos, current_char, current_token, ret, num_dice, sides,
                   modifier, err, diceOps, phase, B, rollVars, harnessVars>>

\* die() returns its Die to dice(), which adds it to the bag with the sign of
\* the call site
DieReturn ==
    /\ pc = "die_return"
    /\ to_return' = add_die(to_return, Die(sides, num_dice, modifier), ret = MINUS)
    /\ pc' = "dice_loop"
    /\ UNCHANGED <<text, pos, current_char, current_token, ret, num_dice, sides,
                   modifier, err, diceOps, phase, B, rollVars, harnessVars>>

\* DiceLoop that requires the end of the input where the term loop ends
DiceLoopToTheEnd ==
    /\ pc = "dice_loop"
    /\ IF IsOperator(current_token)
       THEN LET R == Eat(Lex, current_token.type) IN
            /\ Took(R, "die")
            /\ ret' = IF Ok(R) THEN current_token.type ELSE ret
            /\ diceOps' = IF Ok(R) THEN Append(diceOps, current_token.type)
                           ELSE diceOps
            /\ B' = B
       ELSE LET R == Eat(Lex, EOF) IN
            /\ Took(R, "returned")
            /\ B' = IF phase = "formula" /\ Ok(R) THEN to_return ELSE B
            /\ UNCHANGED <<ret, diceOps>>
    /\ UNCHANGED <<text, num_dice, sides, modifier, to_return, phase, rollVars, harnessVars>>

\* dice(): one test of the term loop; an operator is eaten and die() called,
\* anything else ends the parse, and from_str hands the bag to its caller
DiceLoop ==
    /\ pc = "dice_loop"
    /\ IF IsOperator(current_token)
       THEN LET R == Eat(Lex, current_token.type) IN
            /\ Took(R, "die")
            /\ ret' = IF Ok(R) THEN current_token.type ELSE ret
            /\ diceOps' = IF Ok(R) THEN Append(diceOps, current_token.type)
                           ELSE diceOps
            /\ B' = B
       ELSE /\ pc' = "returned"
            /\ B' = IF phase = "formula" THEN to_return ELSE B
            /\ UNCHANGED <<pos, current_char, current_token, err, ret, diceOps>>
    /\ UNCHANGED <<text, num_dice, sides, modifier, to_return, phase, rollVars, harnessVars>>

\* ------------------------------------------------------------------------
\* Rolling
\* ------------------------------------------------------------------------
RECURSIVE Sum(_)
Sum(xs) == IF xs = <<>> THEN 0 ELSE Head(xs) + Sum(Tail(xs))

\* DieRoll that leaves the modifier out
DieRollDrawsOnly(die, draws) == Sum(draws)

\* Die.roll, given the draws random.randint returned
DieRoll(die, draws) == Sum(draws) + die.modifier

\* DiceBagItemRoll with the multiplier on the dice alone, the modifier added
\* after it
DiceBagItemRollDiceOnly(it, draws) ==
    LET multiplier == IF it.subtracted THEN -1 ELSE 1 IN
    multiplier * Sum(draws) + it.die.modifier

\* DiceBagItem.roll, given the draws of its die
DiceBagItemRoll(it, draws) ==
    LET multiplier == IF it.subtracted THEN -1 ELSE 1 IN
    multiplier * DieRoll(it.die, draws)

\* The bags the model rolls: the draws of one roll are bounded
Rollable(bag) ==
    \A i \in 1..Len(bag) :
        bag[i].die.num_dice <= MaxRollDice /\ bag[i].die.sides <= MaxRollSides

\* B is in hand: from_str(formula) returned it, or it was built
HasBag == IF pc = "built" THEN TRUE ELSE pc = "returned" /\ phase = "formula"

\* DiceBag.roll(): the sum starts
RollEnter ==
    /\ HasBag
    /\ rollpc = "idle"
    /\ Rollable(B)
    /\ rollpc' = "rolling"
    /\ item' = 1
    /\ drawn' = [i \in 1..Len(B) |-> <<>>]
    /\ total' = 0
    /\ UNCHANGED <<parserVars, harnessVars, B>>

\* Draw with a draw from 0 to sides, as random.randint(0, sides) gives
DrawFromZero ==
    /\ rollpc = "rolling"
    /\ item <= Len(B)
    /\ Len(drawn[item]) < B[item].die.num_dice
    /\ IF B[item].die.sides < 0
       THEN /\ rollpc' = "failed"
            /\ drawn' = drawn
       ELSE /\ \E r \in 0..B[item].die.sides :
                  drawn' = [drawn EXCEPT ![item] = Append(@, r)]
            /\ rollpc' = rollpc
    /\ UNCHANGED <<parserVars, harnessVars, B, item, total>>

\* Die.roll(): one random.randint(1, sides), which raises on an empty range
Draw ==
    /\ rollpc = "rolling"
    /\ item <= Len(B)
    /\ Len(drawn[item]) < B[item].die.num_dice
    /\ IF B[item].die.sides < 1
       THEN /\ rollpc' = "failed"
            /\ drawn' = drawn
       ELSE /\ \E r \in 1..B[item].die.sides :
                  drawn' = [drawn EXCEPT ![item] = Append(@, r)]
            /\ rollpc' = rollpc
    /\ UNCHANGED <<parserVars, harnessVars, B, item, total>>

\* DiceBagItem.roll() returns: its signed value joins the sum of DiceBag.roll
ItemDone ==
    /\ rollpc = "rolling"
    /\ item <= Len(B)
    /\ Len(drawn[item]) >= B[item].die.num_dice
    /\ total' = total + DiceBagItemRoll(B[item], drawn[item])
    /\ item' = item + 1
    /\ UNCHANGED <<parserVars, harnessVars, B, rollpc, drawn>>

\* DiceBag.roll() returns total
RollReturn ==
    /\ rollpc = "rolling"
    /\ item > Len(B)
    /\ rollpc' = "done"
    /\ UNCHANGED <<parserVars, harnessVars, B, item, drawn, total>>

\* ------------------------------------------------------------------------
\* Rendering
\* ------------------------------------------------------------------------
\* str() of a natural number: its decimal digits
RECURSIVE NatStr(_)
NatStr(n) == IF n < 10 THEN <<DigitChar(n)>> ELSE NatStr(n \div 10) \o <<DigitChar(n % 10)>>

\* f"{n}"
IntStr(n) == IF n < 0 THEN <<"-">> \o NatStr(-n) ELSE NatStr(n)

\* SignedStr without the forced sign, as f"{n}" gives
SignedStrNoPlus(n) == IntStr(n)

\* f"{n:+}"
SignedStr(n) == IF n < 0 THEN <<"-">> \o NatStr(-n) ELSE <<"+">> \o NatStr(n)

\* Die.__str__
DieStr(die) ==
    IF die.modifier = 0
    THEN IntStr(die.num_dice) \o <<"d">> \o IntStr(die.sides)
    ELSE IntStr(die.num_dice) \o <<"d">> \o IntStr(die.sides) \o SignedStr(die.modifier)

EmptyBagStr ==
    <<"<", "e", "m", "p", "t", "y", " ", "D", "i", "c", "e", "B", "a", "g", ">">>

\* BagStrLoop joining every term with a plus sign
RECURSIVE BagStrLoopAlwaysPlus(_, _, _)
BagStrLoopAlwaysPlus(bag, i, to_ret) ==
    IF i > Len(bag) THEN to_ret
    ELSE BagStrLoopAlwaysPlus(bag, i + 1,
                              to_ret \o <<" ", "+", " ">> \o DieStr(bag[i].die))

\* the for loop of DiceBag.__str__
RECURSIVE BagStrLoop(_, _, _)
BagStrLoop(bag, i, to_ret) ==
    IF i > Len(bag) THEN to_ret
    ELSE BagStrLoop(bag, i + 1,
                    to_ret \o <<" ", IF bag[i].subtracted THEN "-" ELSE "+", " ">>
                           \o DieStr(bag[i].die))

\* DiceBag.__str__
BagStr(bag) ==
    IF bag = <<>> THEN EmptyBagStr
    ELSE BagStrLoop(bag, 2, DieStr(bag[1].die))

\* A new Parser is about to be made for the text t
Reparse(t, why) ==
    /\ text' = t
    /\ phase' = why
    /\ pc' = "new"
    /\ pos' = 0
    /\ current_char' = None
    /\ current_token' = NoToken
    /\ ret' = "first"
    /\ num_dice' = 1
    /\ sides' = 0
    /\ modifier' = 0
    /\ to_return' = <<>>
    /\ err' = NoError
    /\ diceOps' = <<>>

\* DiceBag.from_str(str(B))
Render ==
    /\ HasBag
    /\ rollpc = "idle"
    /\ Reparse(BagStr(B), IF phase = "built" THEN "render_built" ELSE "render")
    /\ UNCHANGED <<B, rollVars, harnessVars>>

\* The whitespace c put into t before position i (0-based)
Insert(t, i, c) == SubSeq(t, 1, i) \o <<c>> \o SubSeq(t, i + 1, Len(t))

\* The places between tokens, before the first and after the last: every
\* position that does not split a run of digits
Boundary(t, i) ==
    ~(i > 0 /\ i < Len(t) /\ IsDecimal(t[i]) /\ IsDecimal(t[i + 1]))

PadChars == {" "}

\* DiceBag.from_str of a formula that was parsed to its end, with one more
\* whitespace character before, between or after its tokens
Pad ==
    /\ pc = "returned"
    /\ phase = "formula"
    /\ current_token.type = EOF
    /\ rollpc = "idle"
    /\ \E i \in 0..Len(text), c \in PadChars :
          /\ Boundary(text, i)
          /\ Reparse(Insert(text, i, c), "pad")
    /\ UNCHANGED <<B, rollVars, harnessVars>>

\* ------------------------------------------------------------------------
\* Inputs
\* ------------------------------------------------------------------------
Alphabet == {"0", "2", "d", "+", "-", " ", "x"}

\* every text of at most MaxLen characters
ShortTexts == UNION {[1..n -> Alphabet] : n \in 0..MaxLen}

OpAlphabet == {"2", "d", "+", "-"}

\* every text of at most MaxOpLen characters of dice, operators and one digit
OpTexts == UNION {[1..n -> OpAlphabet] : n \in 0..MaxOpLen}

RECURSIVE Flatten(_)
Flatten(ss) == IF ss = <<>> THEN <<>> ELSE Head(ss) \o Flatten(Tail(ss))

DieHeads == {<<"d", "1">>, <<"d", "2">>, <<"2", "d", "1">>, <<"1", "0", "d", "2", "0">>}

ModClauses == {<<o, n>> : o \in {"+", "-"}, n \in {"1", "2"}}

\* one die followed by at most MaxMods modifier clauses
ModTexts ==
    {h \o Flatten(cs) : h \in DieHeads,
                        cs \in UNION {[1..n -> ModClauses] : n \in 0..MaxMods}}

\* the formulas of the module's documentation
DocExamples ==
    {<<"d", "6">>,
     <<"1", "d", "6">>,
     <<"2", "d", "1", "0">>,
     <<"d", "1", "2", "+", "1">>,
     <<"1", "d", "4", "+", "1">>,
     <<"2", "0", "d", "6", "-", "5">>,
     <<"8", "d", "1", "0", "+", "1", "d", "4", "-", "1">>,
     <<"d", "2", "0", "+", "5", "-", "1", "d", "4">>,
     <<"d", "2", "0", "+", "2", "+", "4", "-", "1">>,
     <<"d", "8", "+", "1", "-", "2", "+", "3", "+", "d", "4">>,
     <<"2", "d", "1", "0", "-", "1", "+", "7", "-", "2", "d", "4", "+", "1", "-", "1", "+", "2">>,
     <<"2", "d", "6", "+", "5", "d", "4">>,
     <<"2", "d", "6", "+", "5", "+", "1", "d", "4">>,
     <<"2", "d", "4", "+", "2">>,
     <<"d", "1", "0", "-", "3">>,
     <<"d", "2", "0", "+", "5", "-", "d", "4">>,
     <<"2", "d", "2", "0", "+", "5", "+", "d", "4">>,
     <<"2", "x", "6">>,
     <<"1", " ", "2", " ", "d", " ", "1", " ", "0", " ", "+", " ", "2">>,
     <<"1", "2", " ", "d", " ", "1", "0", " ", "+", " ", "2">>}

Texts == ShortTexts \cup OpTexts \cup ModTexts \cup DocExamples

\* the documented formulas, the modifier chains and every text of at most
\* MaxFairLen characters
FairTexts == DocExamples \cup ModTexts \cup UNION {[1..n -> Alphabet] : n \in 0..MaxFairLen}

BagSides == {10}
BagNums == {1, 12}
BagMods == {-1, 0, 5}

BagItems ==
    {DiceBagItem(Die(s, n, m), sub) :
        s \in BagSides, n \in BagNums, m \in BagMods, sub \in BOOLEAN}

\* every bag of at most MaxBagLen terms, built with add_die
Bags == UNION {[1..n -> BagItems] : n \in 1..MaxBagLen}

\* ------------------------------------------------------------------------
\* Specification
\* ------------------------------------------------------------------------
InitParser ==
    /\ pos = 0
    /\ current_char = None
    /\ current_token = NoToken
    /\ ret = "first"
    /\ num_dice = 1
    /\ sides = 0
    /\ modifier = 0
    /\ to_return = <<>>
    /\ err = NoError
    /\ diceOps = <<>>
    /\ rollpc = "idle"
    /\ item = 1
    /\ drawn = <<>>
    /\ total = 0
    /\ first = NoOutcome
    /\ call = NoCall

\* DiceBag.from_str(text) is about to run
InitFormula ==
    /\ text \in Texts
    /\ pc = "new"
    /\ phase = "formula"
    /\ B = <<>>
    /\ InitParser

\* a DiceBag built term by term with add_die
InitBag ==
    /\ B \in Bags
    /\ text = <<>>
    /\ pc = "built"
    /\ phase = "built"
    /\ InitParser

Init == InitFormula \/ InitBag

Next ==
    \/ ParserInit
    \/ DiceEnter
    \/ DieEnter
    \/ DieDelim
    \/ DieSides
    \/ DieLoop
    \/ DieModifier
    \/ DieReturn
    \/ DiceLoop
    \/ RollEnter
    \/ Draw
    \/ ItemDone
    \/ RollReturn
    \/ Render
    \/ Pad

Spec == Init /\ [][Next]_vars

\* The steps of Parser(text).dice() alone
ParserNext ==
    \/ ParserInit
    \/ DiceEnter
    \/ DieEnter
    \/ DieDelim
    \/ DieSides
    \/ DieLoop
    \/ DieModifier
    \/ DieReturn
    \/ DiceLoop

\* DiceBag.from_str(text) is about to run on a documented formula or on a
\* text of at most MaxFairLen characters
InitFair ==
    /\ text \in FairTexts
    /\ pc = "new"
    /\ phase = "formula"
    /\ B = <<>>
    /\ InitParser

\* A parse is under way: Parser(text).dice() has neither returned nor raised
Parsing == pc \notin {"returned", "failed", "built"}

\* The interpreter always runs the next statement of a parse under way. This
\* is WF_vars(ParserNext) with Parsing written for ENABLED <<ParserNext>>_vars:
\* each place of a parse under way is the guard of one step of ParserNext,
\* whose IF/THEN/ELSE covers every case and which always leaves the place.
ParserFairness == []<>(~Parsing) \/ []<><<ParserNext>>_vars

\* One call of DiceBag.from_str(text)
SpecFair == InitFair /\ [][ParserNext]_vars /\ ParserFairness

\* ------------------------------------------------------------------------
\* A Lexer used on its own
\* ------------------------------------------------------------------------
\* every text of at most MaxLexLen characters
LexTexts == UNION {[1..n -> Alphabet] : n \in 0..MaxLexLen}

\* the values of `ahead` a caller passes to peek_next_token
Aheads == (-1)..MaxAhead

Called(op, ahead, token) == [op |-> op, ahead |-> ahead, token |-> token]

\* Lexer(text)
LexerInit ==
    /\ pc = "lexer_new"
    /\ IF text = <<>>
       THEN /\ err' = InvalidInput
            /\ pc' = "failed"
            /\ UNCHANGED <<pos, current_char>>
       ELSE /\ pos' = 0
            /\ current_char' = text[1]
            /\ err' = NoError
            /\ pc' = "lexer"
    /\ call' = Called("init", 0, NoToken)
    /\ UNCHANGED <<text, current_token, ret, num_dice, sides, modifier, to_return,
                   diceOps, phase, B, rollVars, first>>

\* The effect of the call R on the Lexer: it is left as the call left it, and
\* stays in use when the call raised
Answered(R, op, ahead) ==
    /\ pos' = R.lex.pos
    /\ current_char' = R.lex.current_char
    /\ err' = R.error
    /\ call' = Called(op, ahead, R.token)
    /\ UNCHANGED <<text, current_token, pc, ret, num_dice, sides, modifier,
                   to_return, diceOps, phase, B, rollVars, first>>

\* lexer.get_next_token()
LexerNext ==
    /\ pc = "lexer"
    /\ Answered(GetNextToken(text, Lex), "next", 0)

\* lexer.peek_next_token(ahead)
LexerPeek ==
    /\ pc = "lexer"
    /\ \E ahead \in Aheads : Answered(PeekNextToken(text, Lex, ahead), "peek", ahead)

\* Lexer(text) is about to run
InitLexer ==
    /\ text \in LexTexts
    /\ pc = "lexer_new"
    /\ phase = "lexer"
    /\ B = <<>>
    /\ InitParser

NextLexer ==
    \/ LexerInit
    \/ LexerNext
    \/ LexerPeek

SpecLexer == InitLexer /\ [][NextLexer]_vars

\* ------------------------------------------------------------------------
\* The same text parsed twice
\* ------------------------------------------------------------------------
\* DiceBag.from_str(text) once more, after the first call has returned or
\* raised and the bag it returned was rolled or not; the caller keeps how the
\* first call ended
Again ==
    /\ phase = "formula"
    /\ pc \in {"returned", "failed"}
    /\ rollpc # "rolling"
    /\ first' = [pc |-> pc, err |-> err]
    /\ Reparse(text, "again")
    /\ UNCHANGED <<B, rollVars, call>>

NextTwice ==
    \/ ParserNext
    \/ RollEnter
    \/ Draw
    \/ ItemDone
    \/ RollReturn
    \/ Again

SpecTwice == InitFair /\ [][NextTwice]_vars

\* ------------------------------------------------------------------------
\* Properties
\* ------------------------------------------------------------------------
\* The parse at hand has ended, by a return or by an exception
Ended == pc \in {"returned", "failed"}

Returned == pc = "returned"

\* The tokens of t as successive get_next_token calls from position 0 give
\* them, EOF included; NoToken ends the sequence where a call raises.
RECURSIVE TokensFrom(_, _)
TokensFrom(t, L) ==
    LET R == GetNextToken(t, L) IN
    IF ~Ok(R) THEN <<NoToken>>
    ELSE IF R.token.type = EOF THEN <<R.token>>
    ELSE <<R.token>> \o TokensFrom(t, R.lex)

Tokens(t) == IF t = <<>> THEN <<NoToken>> ELSE TokensFrom(t, SetPos(t, 0))

Kinds(t) == LET ts == Tokens(t) IN [i \in 1..Len(ts) |-> ts[i].type]

Item(s, n, m, sub) == DiceBagItem(Die(s, n, m), sub)

Ex_2d6p5d4 == <<"2", "d", "6", "+", "5", "d", "4">>

Ex_2d6p5p1d4 == <<"2", "d", "6", "+", "5", "+", "1", "d", "4">>

\* A d B op C d D
TwoDiceShape(t) ==
    LET k == Kinds(t) IN
    \E op \in {PLUS, MINUS} :
        k = <<INTEGER, DELIM, INTEGER, op, INTEGER, DELIM, INTEGER, EOF>>

\* The step of die() that tests the modifier loop with an operator as the
\* current token, and does not raise
ModifierTest == pc = "die_loop" /\ IsOperator(current_token) /\ pc' # "failed"

C1_Decision ==
    LET T1 == GetNextToken(text, Lex)
        T2 == GetNextToken(text, T1.lex)
    IN  IF T1.token.type = INTEGER /\ T2.token.type # DELIM
        THEN /\ pc' = IF current_token.type = PLUS THEN "die_plus" ELSE "die_minus"
             /\ current_token'.type = INTEGER
             /\ current_token'.value = T1.token.value
        ELSE /\ pc' = "die_return"
             /\ current_token'.type = current_token.type
             /\ modifier' = modifier

C1_Examples ==
    /\ (Ended /\ TwoDiceShape(text)) =>
          /\ Returned
          /\ Len(to_return) = 2
          /\ to_return[1].die.modifier = 0
          /\ to_return[2].die.modifier = 0
    /\ (Ended /\ text = Ex_2d6p5d4) =>
          to_return = <<Item(6, 2, 0, FALSE), Item(4, 5, 0, FALSE)>>
    /\ (Ended /\ text = Ex_2d6p5p1d4) =>
          to_return = <<Item(6, 2, 5, FALSE), Item(4, 1, 0, FALSE)>>

\* C1: in the modifier loop of die(), with an operator as the current token and
\* both lookahead tokens lexed, the operator is eaten as a modifier exactly when
\* the next token is an INTEGER and the one after it is not a DELIM; otherwise
\* the loop ends with the operator still the current token.  Hence a formula
\* A d B op C d D gives two terms with modifier 0, "2d6+5d4" gives 2d6 and an
\* added 5d4, and "2d6+5+1d4" gives 2d6+5 and an added 1d4.
C1_Disambiguation == [][ModifierTest => C1_Decision]_vars /\ []C1_Examples

\* Both outcomes of the test in one parse: +5 was a modifier, +1 began a die
C1_Witness ==
    /\ Returned
    /\ phase = "formula"
    /\ text = Ex_2d6p5p1d4
    /\ to_return = <<Item(6, 2, 5, FALSE), Item(4, 1, 0, FALSE)>>

Ex_8d10p1d4m1 == <<"8", "d", "1", "0", "+", "1", "d", "4", "-", "1">>

\* C2 as stated: "8d10+1d4-1" gives 8d10+0 added and 1d4-1 flagged subtracted,
\* so that a roll of the bag takes (1d4 roll - 1) away.
C2_SecondTermSubtracted ==
    (Ended /\ phase = "formula" /\ text = Ex_8d10p1d4m1) =>
        /\ to_return = <<Item(10, 8, 0, FALSE), Item(4, 1, -1, TRUE)>>
        /\ \A r \in 1..4 : DiceBagItemRoll(to_return[2], <<r>>) = -(r - 1)

\* C2 (amended): "8d10+1d4-1" gives exactly two terms, 8d10 with modifier 0 and
\* 1d4 with modifier -1, both added: the Minus is eaten by die() as the
\* modifier of 1d4, and a roll of the bag adds (1d4 roll - 1) to the 8d10 roll.
C2_SecondTermAdded ==
    (Ended /\ phase = "formula" /\ text = Ex_8d10p1d4m1) =>
        /\ Returned
        /\ to_return = <<Item(10, 8, 0, FALSE), Item(4, 1, -1, FALSE)>>
        /\ diceOps = <<PLUS>>
        /\ \A r \in 1..4 : DiceBagItemRoll(to_return[2], <<r>>) = r - 1

C2_Witness ==
    /\ Returned
    /\ phase = "formula"
    /\ text = Ex_8d10p1d4m1
    /\ Len(B) = 2
    /\ ~B[2].subtracted

\* [integer] DELIM integer (op integer)*: one die and its modifier clauses,
\* read off the kinds k of the tokens
RECURSIVE ClausesOnly(_, _)
ClausesOnly(k, i) ==
    IF i > Len(k) THEN FALSE
    ELSE IF k[i] = EOF THEN i = Len(k)
    ELSE /\ k[i] \in {PLUS, MINUS}
         /\ i + 1 <= Len(k)
         /\ k[i + 1] = INTEGER
         /\ ClausesOnly(k, i + 2)

\* the index of the DELIM of a text that begins with a die
DelimAt(k) == IF k[1] = INTEGER THEN 2 ELSE 1

OneDieShape(t) ==
    LET k == Kinds(t) IN
    /\ Len(k) >= DelimAt(k) + 2
    /\ k[DelimAt(k)] = DELIM
    /\ k[DelimAt(k) + 1] = INTEGER
    /\ ClausesOnly(k, DelimAt(k) + 2)

\* the signed sum of the clauses (op integer) that begin at token i
RECURSIVE SignedSum(_, _)
SignedSum(ts, i) ==
    IF i + 1 > Len(ts) THEN 0
    ELSE (IF ts[i].type = PLUS THEN ts[i + 1].value ELSE -ts[i + 1].value)
         + SignedSum(ts, i + 2)

\* the number of clauses (op integer) of a one-die text
NumClauses(t) == (Len(Tokens(t)) - DelimAt(Kinds(t)) - 2) \div 2

ExpectedDie(t) ==
    LET ts == Tokens(t)
        d == DelimAt(Kinds(t))
    IN  Die(ts[d + 1].value, IF d = 2 THEN ts[1].value ELSE 1, SignedSum(ts, d + 2))

Ex_d20p2p4m1 == <<"d", "2", "0", "+", "2", "+", "4", "-", "1">>

\* C3: a die followed by n >= 0 modifier clauses and nothing else parses to
\* exactly one term, added, whose modifier is the signed sum of the integers of
\* the clauses (0 without a clause) and whose num_dice is 1 when the count is
\* omitted; "d20+2+4-1" gives the single Die sides=20, num_dice=1, modifier=5.
C3_ModifierAccumulation ==
    /\ (Ended /\ OneDieShape(text)) =>
          /\ Returned
          /\ to_return = <<DiceBagItem(ExpectedDie(text), FALSE)>>
    /\ (Ended /\ text = Ex_d20p2p4m1) => to_return = <<Item(20, 1, 5, FALSE)>>

\* a die with three clauses of both signs was parsed
C3_Witness ==
    /\ Returned
    /\ OneDieShape(text)
    /\ NumClauses(text) = 3
    /\ text = Ex_d20p2p4m1
    /\ to_return[1].die.modifier = 5

\* C4: whitespace put before, between or after the tokens of a formula that
\* parses to its end changes nothing: the padded text parses, to the same terms
\* (next_token gives EOF when only whitespace is left).
C4_WhitespaceInsignificant ==
    (Ended /\ phase = "pad") => (Returned /\ to_return = B)

Ex_d20p5m1d4 == <<"d", "2", "0", "+", "5", "-", "1", "d", "4">>

\* C5: a bag returned by a parse is not empty, has one term more than dice()
\* ate operators (those eaten by die() give no term), its first term is
\* added, and a later term is subtracted exactly when the operator dice() ate
\* before it was a MINUS; "d20+5-1d4" gives 1d20+5 added and 1d4+0 subtracted.
C5_BagShape ==
    /\ Returned =>
          /\ Len(to_return) >= 1
          /\ Len(to_return) = 1 + Len(diceOps)
          /\ ~to_return[1].subtracted
          /\ \A i \in 2..Len(to_return) :
                to_return[i].subtracted <=> (diceOps[i - 1] = MINUS)
    /\ (Ended /\ text = Ex_d20p5m1d4) =>
          to_return = <<Item(20, 1, 5, FALSE), Item(4, 1, 0, TRUE)>>

\* a parse where die() ate a PLUS and dice() a MINUS
C5_Witness ==
    /\ Returned
    /\ text = Ex_d20p5m1d4
    /\ diceOps = <<MINUS>>
    /\ to_return[2].subtracted

SignOf(it) == IF it.subtracted THEN -1 ELSE 1

\* the sum over the terms from i on of sign x (draws of the term + modifier)
RECURSIVE SignedTotal(_, _, _)
SignedTotal(bag, draws, i) ==
    IF i > Len(bag) THEN 0
    ELSE SignOf(bag[i]) * Sum(draws[i]) + SignOf(bag[i]) * bag[i].die.modifier
         + SignedTotal(bag, draws, i + 1)

\* C6: DiceBag.roll returns the sum over all terms of sign x (that term's
\* roll), sign being -1 for a subtracted term; every term is rolled once, with
\* num_dice draws, and the modifier of a subtracted term is negated with its
\* dice.
C6_BagRoll ==
    rollpc = "done" =>
        /\ item = Len(B) + 1
        /\ Len(drawn) = Len(B)
        /\ \A i \in 1..Len(B) : Len(drawn[i]) = B[i].die.num_dice
        /\ total = SignedTotal(B, drawn, 1)

\* a bag was rolled whose subtracted term has dice and a modifier
C6_Witness ==
    /\ rollpc = "done"
    /\ \E i \in 1..Len(B) :
          /\ B[i].subtracted
          /\ B[i].die.modifier # 0
          /\ Len(drawn[i]) > 0

RECURSIVE SpecMin(_, _)
SpecMin(bag, i) ==
    IF i > Len(bag) THEN 0
    ELSE SignOf(bag[i]) * (bag[i].die.num_dice * 1 + bag[i].die.modifier)
         + SpecMin(bag, i + 1)

RECURSIVE SpecMax(_, _)
SpecMax(bag, i) ==
    IF i > Len(bag) THEN 0
    ELSE SignOf(bag[i]) * (bag[i].die.num_dice * bag[i].die.sides + bag[i].die.modifier)
         + SpecMax(bag, i + 1)

\* the least and the greatest roll: a subtracted term is least when its dice
\* are greatest
RECURSIVE Lowest(_, _)
Lowest(bag, i) ==
    IF i > Len(bag) THEN 0
    ELSE (IF bag[i].subtracted
          THEN -(bag[i].die.num_dice * bag[i].die.sides + bag[i].die.modifier)
          ELSE bag[i].die.num_dice * 1 + bag[i].die.modifier)
         + Lowest(bag, i + 1)

RECURSIVE Highest(_, _)
Highest(bag, i) ==
    IF i > Len(bag) THEN 0
    ELSE (IF bag[i].subtracted
          THEN -(bag[i].die.num_dice * 1 + bag[i].die.modifier)
          ELSE bag[i].die.num_dice * bag[i].die.sides + bag[i].die.modifier)
         + Highest(bag, i + 1)

SidesPositive(bag) == \A i \in 1..Len(bag) : bag[i].die.sides >= 1

NoneSubtracted(bag) == \A i \in 1..Len(bag) : ~bag[i].subtracted

\* C7 as stated: the roll of a parsed bag with sides >= 1 and a non-negative
\* minimum lies between min = sum of sign x (num_dice + modifier) and
\* max = sum of sign x (num_dice x sides + modifier).
C7_SpecBounds ==
    (rollpc = "done" /\ phase = "formula" /\ SidesPositive(B) /\ SpecMin(B, 1) >= 0) =>
        (SpecMin(B, 1) <= total /\ total <= SpecMax(B, 1))

\* C7 (amended): the roll of a bag with sides >= 1 lies between the least and
\* the greatest roll, where a subtracted term counts -(num_dice x sides +
\* modifier) in the least and -(num_dice + modifier) in the greatest; they are
\* the min and max of the claim when no term is subtracted.
C7_RollBounds ==
    (rollpc = "done" /\ SidesPositive(B)) =>
        /\ Lowest(B, 1) <= total
        /\ total <= Highest(B, 1)
        /\ NoneSubtracted(B) =>
              (Lowest(B, 1) = SpecMin(B, 1) /\ Highest(B, 1) = SpecMax(B, 1))

\* a parsed bag with a subtracted term rolled its greatest roll, above max
C7_Witness ==
    /\ rollpc = "done"
    /\ phase = "formula"
    /\ SidesPositive(B)
    /\ SpecMin(B, 1) >= 0
    /\ total = Highest(B, 1)
    /\ total > SpecMax(B, 1)

Terms(bag) ==
    [i \in 1..Len(bag) |->
        <<bag[i].die.sides, bag[i].die.num_dice, bag[i].die.modifier, bag[i].subtracted>>]

AddedNonNegative(bag) ==
    \A i \in 1..Len(bag) :
        /\ ~bag[i].subtracted
        /\ bag[i].die.modifier >= 0
        /\ bag[i].die.sides >= 0
        /\ bag[i].die.num_dice >= 0

\* C8: for a non-empty bag B of added terms with natural sides and num_dice
\* and modifiers >= 0, built or parsed, parsing str(B) returns a bag with the
\* terms of B.
C8_RoundTripAdded ==
    (Ended /\ phase \in {"render", "render_built"} /\ B # <<>> /\ AddedNonNegative(B)) =>
        /\ Returned
        /\ Terms(to_return) = Terms(B)

\* a built bag with a positive modifier on a term that another term follows
C8_Witness ==
    /\ Returned
    /\ phase = "render_built"
    /\ AddedNonNegative(B)
    /\ Len(B) = 2
    /\ B[1].die.modifier > 0
    /\ Len(to_return) = 2

\* C9: for a bag B returned by a parse, subtracted terms and negative
\* modifiers included, parsing str(B) returns a bag with the terms of B; a
\* subtracted term comes back subtracted, with its modifier.
C9_RoundTripParsed ==
    (Ended /\ phase = "render") =>
        /\ Returned
        /\ Len(to_return) = Len(B)
        /\ \A i \in 1..Len(B) :
              /\ to_return[i].die = B[i].die
              /\ to_return[i].subtracted = B[i].subtracted

\* a parsed bag with a subtracted second term that has a negative modifier
\* went through str and the parser
C9_Witness ==
    /\ Returned
    /\ phase = "render"
    /\ Len(B) = 2
    /\ B[2].subtracted
    /\ B[2].die.modifier < 0
    /\ to_return = B

\* C10 as stated: every Die of a bag returned by a parse has sides >= 1 and
\* num_dice >= 0.
C10_SidesAtLeastOne ==
    (Returned /\ phase = "formula") =>
        \A i \in 1..Len(to_return) :
            to_return[i].die.sides >= 1 /\ to_return[i].die.num_dice >= 0

\* C10 (amended): every Die of a bag returned by a parse has sides >= 0 and
\* num_dice >= 0, both being values of digit runs; sides = 0 is reached ("d0").
C10_FieldRanges ==
    Returned =>
        \A i \in 1..Len(to_return) :
            to_return[i].die.sides >= 0 /\ to_return[i].die.num_dice >= 0

\* a parsed die with sides 0, count 0 and a negative modifier
C10_Witness ==
    /\ Returned
    /\ phase = "formula"
    /\ to_return[1].die.sides = 0
    /\ to_return[1].die.num_dice = 0
    /\ to_return[1].die.modifier < 0

\* ------------------------------------------------------------------------
\* Termination
\* ------------------------------------------------------------------------
\* How far the lexer and the current token are from the end of the text: the
\* characters left after the cursor, and whether the current token is still
\* to be consumed (EOF never is)
Remaining ==
    2 * (Len(text) - pos) + (IF current_token.type = EOF THEN 0 ELSE 1)

\* The place of a step within one pass of die(); the steps that go back to an
\* earlier place (die_plus/die_minus to die_loop, dice_loop to die) are the
\* ones that close a loop
Rank(p) ==
    CASE p = "new" -> 9
      [] p = "dice" -> 8
      [] p = "die" -> 7
      [] p = "die_delim" -> 6
      [] p = "die_sides" -> 5
      [] p = "die_loop" -> 4
      [] p \in {"die_plus", "die_minus"} -> 3
      [] p = "die_return" -> 2
      [] p = "dice_loop" -> 1
      [] OTHER -> 0

Variant == 10 * Remaining + Rank(pc)

\* C11: Parser(text).dice() ends after finitely many steps, by a return or by
\* an exception: a parse under way always comes to its end. Every step of it
\* lowers a natural number (so a pass of a loop always moves the cursor or the
\* current token forward), which is 0 only when the parse has ended, and a
\* parse under way is always at a place that has a step.
C11_Terminates ==
    /\ [][Parsing => Variant' < Variant]_vars
    /\ [](Variant \in Nat /\ (Variant = 0 => ~Parsing))
    /\ [](Parsing => Rank(pc) > 0)
    /\ Parsing ~> Ended

\* a parse that went round the modifier loop and the dice loop has returned
C11_Witness ==
    /\ Returned
    /\ phase = "formula"
    /\ Len(to_return) = 2
    /\ to_return[1].die.modifier # 0
    /\ to_return[2].die.modifier # 0
    /\ Variant = 0

\* ------------------------------------------------------------------------
\* Errors of the lexer and of eat
\* ------------------------------------------------------------------------
\* the characters get_next_token makes a token of
Recognised == Digits \cup {"d", "+", "-"}

\* the index of the first character of t at or after index p that is not
\* whitespace, Len(t) when there is none
RECURSIVE FirstNonSpace(_, _)
FirstNonSpace(t, p) ==
    IF p < Len(t) /\ t[p + 1] \in Whitespace THEN FirstNonSpace(t, p + 1) ELSE p

Ex_2x6 == <<"2", "x", "6">>

\* C12: when get_next_token, after skipping whitespace, meets a character that
\* is not a digit, 'd', '+' or '-', it raises InvalidCharacter naming that
\* character and its 0-based index in the original text; every
\* InvalidCharacter of a parse names such a character of the text, at which
\* the cursor is left; "2x6" fails with 'x' at index 1.
C12_InvalidCharacter ==
    /\ err.kind = "InvalidCharacter" =>
          /\ pc = "failed"
          /\ err.index \in 0..(Len(text) - 1)
          /\ text[err.index + 1] = err.char
          /\ err.char \notin Recognised \cup Whitespace
          /\ pos = err.index
    /\ (pc \notin {"new", "built"} /\ pos < Len(text)) =>
          LET q == FirstNonSpace(text, pos) IN
          (q < Len(text) /\ text[q + 1] \notin Recognised) =>
              GetNextToken(text, Lex).error = InvalidCharacter(text[q + 1], q)
    /\ (Ended /\ text = Ex_2x6) => (pc = "failed" /\ err = InvalidCharacter("x", 1))

\* a parse has failed on an unrecognised character that follows whitespace
C12_Witness ==
    /\ pc = "failed"
    /\ err.kind = "InvalidCharacter"
    /\ err.index >= 2
    /\ text[err.index] \in Whitespace
    /\ err.char = "x"

\* the places of die() where eat is called with a fixed expected kind
EatPlaces == {"die_delim", "die_sides", "die_plus", "die_minus"}

Expected(p) == IF p = "die_delim" THEN DELIM ELSE INTEGER

\* the step replaces the current token by the token of the lexer's next call
TokenReplaced ==
    LET R == GetNextToken(text, Lex) IN
    /\ pos' = R.lex.pos
    /\ current_char' = R.lex.current_char
    /\ IF Ok(R)
       THEN current_token' = R.token /\ err' = NoError /\ pc' # "failed"
       ELSE current_token' = current_token /\ err' = R.error /\ pc' = "failed"

\* the step raises UnexpectedToken and moves neither the token nor the lexer
Refused(expected) ==
    /\ pc' = "failed"
    /\ err' = UnexpectedToken(expected, current_token.type)
    /\ current_token' = current_token
    /\ pos' = pos
    /\ current_char' = current_char

\* a step of the parser whose eat meets a current token of the expected kind
EatMatches ==
    \/ pc \in EatPlaces /\ current_token.type = Expected(pc)
    \/ pc = "die" /\ current_token.type = INTEGER
    \/ pc \in {"die_loop", "dice_loop"} /\ IsOperator(current_token)

C13_Step ==
    /\ pc \in EatPlaces =>
          IF current_token.type = Expected(pc)
          THEN TokenReplaced
          ELSE Refused(Expected(pc))
    /\ (current_token' # current_token /\ pc # "new" /\ pc' # "new") =>
          (EatMatches /\ TokenReplaced)
    /\ (err'.kind = "UnexpectedToken" /\ pc' # pc) =>
          (pc \in EatPlaces /\ current_token.type # Expected(pc))

Ex_d == <<"d">>

\* C13: eat(expected) replaces the current token by the lexer's next token
\* exactly when the current token is of the expected kind; otherwise it raises
\* UnexpectedToken naming the expected and the actual kind and leaves the
\* current token and the lexer cursor as they were. The current token changes
\* by no other step of a parse, and "d" fails expecting INTEGER, got EOF.
C13_Eat ==
    /\ [][C13_Step]_vars
    /\ []((Ended /\ text = Ex_d) =>
            (pc = "failed" /\ err = UnexpectedToken(INTEGER, EOF)))

\* eat has replaced the token several times and then refused one: a second
\* die that has its 'd' and no sides
C13_Witness ==
    /\ pc = "failed"
    /\ err = UnexpectedToken(INTEGER, EOF)
    /\ Len(to_return) = 1
    /\ current_token.type = EOF
    /\ pos = Len(text)

\* C14: the empty text is rejected at construction with InvalidInput: no token
\* is produced, nothing is parsed and no DiceBag is returned; no other text
\* raises InvalidInput.
C14_EmptyInput ==
    /\ (text = <<>> /\ pc \notin {"new", "built"}) =>
          /\ pc = "failed"
          /\ err = InvalidInput
          /\ current_token = NoToken
          /\ pos = 0
          /\ current_char = None
          /\ to_return = <<>>
          /\ B = <<>>
          /\ rollpc = "idle"
    /\ err.kind = "InvalidInput" => (text = <<>> /\ pc = "failed")

\* DiceBag.from_str("") has raised
C14_Witness ==
    /\ text = <<>>
    /\ phase = "formula"
    /\ pc = "failed"
    /\ err = InvalidInput

\* ------------------------------------------------------------------------
\* The roll of one Die
\* ------------------------------------------------------------------------
\* the draw Die.roll made last for the item in hand
LastDraw == drawn[item][Len(drawn[item])]

\* C18: the roll of a Die with sides >= 1 is the sum of exactly num_dice draws,
\* each from 1 to sides, plus the modifier, so it lies from
\* num_dice + modifier to num_dice * sides + modifier; every draw can come out
\* as 1 and as sides, so both ends are reached; 1 die of 1 side rolls
\* 1 + modifier and 0 dice roll the modifier.
C18_DieRoll ==
    /\ (rollpc = "done" /\ Len(B) = 1 /\ B[1].die.sides >= 1) =>
          LET d == B[1].die
              v == IF B[1].subtracted THEN -total ELSE total
          IN  /\ Len(drawn[1]) = d.num_dice
              /\ \A k \in 1..Len(drawn[1]) : drawn[1][k] \in 1..d.sides
              /\ v = Sum(drawn[1]) + d.modifier
              /\ v >= d.num_dice + d.modifier
              /\ v <= d.num_dice * d.sides + d.modifier
              /\ (d.sides = 1 /\ d.num_dice = 1) => v = 1 + d.modifier
              /\ d.num_dice = 0 => v = d.modifier
    /\ (rollpc = "rolling" /\ item <= Len(B)) =>
          LET d == B[item].die IN
          (d.sides >= 1 /\ Len(drawn[item]) < d.num_dice) =>
              /\ ENABLED (Draw /\ LastDraw' = 1)
              /\ ENABLED (Draw /\ LastDraw' = d.sides)
              /\ ~ENABLED (Draw /\ LastDraw' \notin 1..d.sides)

\* two dice of several sides with a modifier have rolled their highest value
C18_Witness ==
    /\ rollpc = "done"
    /\ Len(B) = 1
    /\ B[1].die.num_dice = 2
    /\ B[1].die.sides >= 2
    /\ B[1].die.modifier # 0
    /\ total = 2 * B[1].die.sides + B[1].die.modifier

\* ------------------------------------------------------------------------
\* Trailing input
\* ------------------------------------------------------------------------
\* The successive get_next_token calls on t from position 0, each with the
\* lexer state it leaves, up to the EOF token or the call that raises
RECURSIVE LexesFrom(_, _)
LexesFrom(t, L) ==
    LET R == GetNextToken(t, L) IN
    IF ~Ok(R) \/ R.token.type = EOF THEN <<R>> ELSE <<R>> \o LexesFrom(t, R.lex)

Lexes(t) == LexesFrom(t, SetPos(t, 0))

\* Reading of a token sequence by the grammar
\*   dice ::= die (op die)*      die ::= [INTEGER] DELIM INTEGER (op INTEGER)*
\* q is what was read last: "start", "count", "delim", "sides", "op" or "mod"
\* (the integer after an operator, a modifier unless a DELIM follows); n is the
\* number of tokens read, bag the terms completed, val the integer after the
\* last operator.
Reading0 ==
    [q |-> "start", n |-> 0, bag |-> <<>>, num |-> 1, sides |-> 0, mod |-> 0,
     sub |-> FALSE, op |-> PLUS, val |-> 0]

HasMove(W, tok) ==
    CASE W.q = "start" -> tok.type \in {INTEGER, DELIM}
      [] W.q = "count" -> tok.type = DELIM
      [] W.q = "delim" -> tok.type = INTEGER
      [] W.q = "sides" -> tok.type \in {PLUS, MINUS}
      [] W.q = "op" -> tok.type \in {INTEGER, DELIM}
      [] W.q = "mod" -> tok.type \in {PLUS, MINUS, DELIM}

Signed(W) == IF W.op = PLUS THEN W.val ELSE -W.val

Move(W, tok) ==
    LET V == [W EXCEPT !.n = W.n + 1] IN
    CASE W.q = "start" /\ tok.type = INTEGER ->
            [V EXCEPT !.q = "count", !.num = tok.value]
      [] W.q \in {"start", "count"} /\ tok.type = DELIM ->
            [V EXCEPT !.q = "delim"]
      [] W.q = "delim" ->
            [V EXCEPT !.q = "sides", !.sides = tok.value, !.mod = 0]
      [] W.q = "sides" ->
            [V EXCEPT !.q = "op", !.op = tok.type]
      [] W.q = "op" /\ tok.type = INTEGER ->
            [V EXCEPT !.q = "mod", !.val = tok.value]
      [] W.q = "op" /\ tok.type = DELIM ->
            [V EXCEPT !.q = "delim",
                      !.bag = Append(W.bag, Item(W.sides, W.num, W.mod, W.sub)),
                      !.num = 1, !.sub = (W.op = MINUS)]
      [] W.q = "mod" /\ tok.type \in {PLUS, MINUS} ->
            [V EXCEPT !.q = "op", !.op = tok.type, !.mod = W.mod + Signed(W)]
      [] W.q = "mod" /\ tok.type = DELIM ->
            [V EXCEPT !.q = "delim",
                      !.bag = Append(W.bag, Item(W.sides, W.num, W.mod, W.sub)),
                      !.num = W.val, !.sub = (W.op = MINUS)]

\* the reading of at most `limit` tokens of ls, stopped earlier by a token the
\* grammar cannot go on with or by a call that raised
RECURSIVE ReadTo(_, _, _)
ReadTo(ls, W, limit) ==
    IF W.n >= limit \/ W.n >= Len(ls) THEN W
    ELSE LET R == ls[W.n + 1] IN
         IF ~Ok(R) THEN W
         ELSE IF ~HasMove(W, R.token) THEN W
         ELSE ReadTo(ls, Move(W, R.token), limit)

\* the tokens read so far are a well-formed dice formula
WellFormed(W) == W.q \in {"sides", "mod"}

\* the bag of a well-formed reading
BagOf(W) ==
    IF W.q = "sides"
    THEN Append(W.bag, Item(W.sides, W.num, W.mod, W.sub))
    ELSE Append(W.bag, Item(W.sides, W.num, W.mod + Signed(W), W.sub))

\* the parse returned the bag of the reading W and stopped on the token that
\* follows it, with the cursor right after that token
StoppedAfter(ls, W) ==
    /\ Returned
    /\ err = NoError
    /\ to_return = BagOf(W)
    /\ current_token = ls[W.n + 1].token
    /\ pos = ls[W.n + 1].lex.pos

\* C19 as stated: whenever a well-formed prefix is followed by an INTEGER or
\* a DELIM token, the parse returns the bag of that prefix alone.
C19_AnyPrefix ==
    (Ended /\ text # <<>>) =>
        LET ls == Lexes(text) IN
        \A n \in 1..(Len(ls) - 1) :
            LET W == ReadTo(ls, Reading0, n) IN
            (W.n = n /\ WellFormed(W) /\ ls[n + 1].token.type \in {INTEGER, DELIM})
                => StoppedAfter(ls, W)

\* C19 (amended): when the reading of the text stops, well-formed, on an
\* INTEGER or a DELIM token that the grammar cannot go on with (a DELIM after
\* a modifier integer is not one: it makes that integer the count of a new
\* die), the parse returns the bag of what was read and the text after that
\* token is never lexed; when it stops, well-formed, on an unrecognised
\* character, the parse raises InvalidCharacter for it.
C19_TrailingInput ==
    (Ended /\ text # <<>>) =>
        LET ls == Lexes(text)
            W == ReadTo(ls, Reading0, Len(ls))
            R == ls[W.n + 1]
        IN  WellFormed(W) =>
              /\ R.token.type \in {INTEGER, DELIM} => StoppedAfter(ls, W)
              /\ R.error.kind = "InvalidCharacter" =>
                    (pc = "failed" /\ err = R.error)

\* a parse has returned with an unrecognised character left unread after the
\* token it stopped on
C19_Witness ==
    /\ Returned
    /\ phase = "formula"
    /\ current_token.type \in {INTEGER, DELIM}
    /\ pos < Len(text)
    /\ \E i \in (pos + 1)..Len(text) : text[i] = "x"

\* ------------------------------------------------------------------------
\* The Lexer: lookahead and cursor
\* ------------------------------------------------------------------------
\* the token the n-th of n successive get_next_token calls returns, from L
RECURSIVE NthToken(_, _, _)
NthToken(t, L, n) ==
    LET R == GetNextToken(t, L) IN
    IF n <= 1 THEN R.token ELSE NthToken(t, R.lex, n - 1)

\* the step is a call of peek_next_token that returned
PeekReturned == call'.op = "peek" /\ err' = NoError

\* C16: when peek_next_token(ahead) returns, ahead is at least 1, the cursor
\* and the current character are as they were before the call, the token
\* returned is the one the ahead-th of `ahead` successive get_next_token calls
\* returns, and the next get_next_token is the one there would have been
\* without the peek.
C16_PeekRestores ==
    [][PeekReturned =>
          /\ call'.ahead >= 1
          /\ pos' = pos
          /\ current_char' = current_char
          /\ call'.token = NthToken(text, Lex, call'.ahead)
          /\ GetNextToken(text, [pos |-> pos', current_char |-> current_char'])
                = GetNextToken(text, Lex)]_vars

\* a peek of two or more tokens has returned an INTEGER from the middle of
\* the text
C16_Witness ==
    /\ pc = "lexer"
    /\ call.op = "peek"
    /\ call.ahead >= 2
    /\ err = NoError
    /\ call.token.type = INTEGER
    /\ pos > 0
    /\ pos < Len(text)

\* the step is a call of peek_next_token with ahead < 1
PeekOfNone == call'.op = "peek" /\ call'.ahead < 1

\* C17: peek_next_token(ahead) with ahead < 1 fails its assertion (the
\* InvalidArgument of the interface): it returns no token, lexes nothing and
\* leaves the cursor and the current character as they were.
C17_PeekArgument ==
    [][PeekOfNone =>
          /\ err' = AssertionError
          /\ call'.token = NoToken
          /\ pos' = pos
          /\ current_char' = current_char]_vars

\* peek_next_token(0) or (-1) has failed on a lexer that had moved
C17_Witness ==
    /\ pc = "lexer"
    /\ call.op = "peek"
    /\ call.ahead < 1
    /\ err = AssertionError
    /\ pos > 0
    /\ pos < Len(text)

\* the cursor is within the text or right at its end, and the current
\* character is the one under it
CursorInv ==
    /\ pos \in 0..Len(text)
    /\ current_char = IF pos < Len(text) THEN text[pos + 1] ELSE None

\* C20: on a constructed Lexer 0 <= pos <= len(text), and current_char is
\* text[pos], or None at the end; no call moves the cursor back; at the end
\* every get_next_token returns EOF and moves nothing.
C20_Cursor ==
    /\ [](pc = "lexer" => CursorInv)
    /\ [][pc = "lexer" => pos' >= pos]_vars
    /\ [][(pc = "lexer" /\ pos = Len(text) /\ call'.op = "next") =>
            /\ call'.token.type = EOF
            /\ err' = NoError
            /\ pos' = pos
            /\ current_char' = None]_vars

\* get_next_token has returned EOF a second time at the end of a text of
\* several characters
C20_Witness ==
    /\ pc = "lexer"
    /\ call.op = "next"
    /\ call.token.type = EOF
    /\ pos = Len(text)
    /\ Len(text) >= 3
    /\ current_char = None

\* ------------------------------------------------------------------------
\* Determinism
\* ------------------------------------------------------------------------
\* C15: parsing the same text a second time ends as the first time did, with
\* an equal bag or the same error, whatever rolls of the first bag came in
\* between; a step of a roll changes neither the bag nor the parser, and a
\* step of a parse changes nothing of a roll.
C15_Deterministic ==
    /\ []((phase = "again" /\ Ended) =>
            /\ pc = first.pc
            /\ err = first.err
            /\ Returned => to_return = B)
    /\ [][rollVars' # rollVars => (B' = B /\ parserVars' = parserVars)]_vars
    /\ [][parserVars' # parserVars => rollVars' = rollVars]_vars

\* a die with a modifier was parsed, its two dice rolled to the end, and the
\* text parsed again to the same bag
C15_Witness ==
    /\ phase = "again"
    /\ Returned
    /\ first = [pc |-> "returned", err |-> NoError]
    /\ rollpc = "done"
    /\ B[1].die.modifier # 0
    /\ Len(drawn[1]) = 2
    /\ total # 0
    /\ to_return = B

====
